---- MODULE Spec2Model ----
(***************************************************************************)
(* Model of the data ingestion, validation, merge and persistence pipeline *)
(* of the FAANG financial dashboard (src/app.py).                          *)
(*                                                                         *)
(* A CSV file on disk is a sequence of text rows (a function from column   *)
(* name to a text token).  A DataFrame in memory holds parsed values: a    *)
(* date is the integer yyyymmdd, a number is an integer count of           *)
(* hundredths (165.91 is 16591), NaT and NaN are sentinels.                *)
(***************************************************************************)
EXTENDS Integers, Sequences, FiniteSets, TLC

(***************************************************************************)
(* Bounds of the model.                                                    *)
(***************************************************************************)
MaxTime == 2
MaxRuns == 5
MaxPartial == 1
MaxFaults == 1
MaxTableRows == 2
MaxGrowthRows == 3

(***************************************************************************)
(* Schema (src/app.py:72, :89).                                            *)
(***************************************************************************)
required_columns ==
    {"Date", "Company", "Revenue", "NetIncome", "OperatingExpenses",
     "MarketCap", "StockPrice", "PERatio"}

numeric_columns ==
    <<"Revenue", "NetIncome", "OperatingExpenses", "MarketCap", "StockPrice",
      "PERatio">>

NumericSet == {numeric_columns[i] : i \in 1..Len(numeric_columns)}

computed_columns == {"Year", "Quarter"}

NaT == 0
NaN == -1

(***************************************************************************)
(* Text tokens that occur in the cells of the modelled files.              *)
(***************************************************************************)
DateTokens ==
    {"2020-03-31", "03/31/2020", "2020-06-30", "2021-03-31", "2022-03-31", ""}
NumTokens ==
    {"0", "100", "120", "17737", "18687", "4902", "5178", "12835", "13509",
     "585000", "603000", "165.91", "173.18", "26.5", "27.2", ""}
CompanyTokens == {"Meta", "Apple"}

(***************************************************************************)
(* pd.to_datetime on one cell: the date as yyyymmdd, NaT for a blank cell. *)
(* Only called on tokens that parse (CanParseDate).                        *)
(***************************************************************************)
CanParseDate(t) == t \in DateTokens

to_datetime(t) ==
    CASE t = "2020-03-31" -> 20200331
      [] t = "03/31/2020" -> 20200331
      [] t = "2020-06-30" -> 20200630
      [] t = "2021-03-31" -> 20210331
      [] t = "2022-03-31" -> 20220331
      [] OTHER -> NaT

(***************************************************************************)
(* pd.to_numeric on one cell, in hundredths; NaN for a blank cell.         *)
(***************************************************************************)
CanParseNumeric(t) == t \in NumTokens

to_numeric(t) ==
    CASE t = "0" -> 0
      [] t = "100" -> 10000
      [] t = "120" -> 12000
      [] t = "17737" -> 1773700
      [] t = "18687" -> 1868700
      [] t = "4902" -> 490200
      [] t = "5178" -> 517800
      [] t = "12835" -> 1283500
      [] t = "13509" -> 1350900
      [] t = "585000" -> 58500000
      [] t = "603000" -> 60300000
      [] t = "165.91" -> 16591
      [] t = "173.18" -> 17318
      [] t = "26.5" -> 2650
      [] t = "27.2" -> 2720
      [] OTHER -> NaN

(***************************************************************************)
(* DataFrame.to_csv on one cell: the canonical text of a parsed value.     *)
(***************************************************************************)
date_to_csv(d) ==
    CASE d = 20200331 -> "2020-03-31"
      [] d = 20200630 -> "2020-06-30"
      [] d = 20210331 -> "2021-03-31"
      [] d = 20220331 -> "2022-03-31"
      [] OTHER -> ""

numeric_to_csv(n) ==
    IF n = NaN THEN ""
    ELSE CHOOSE t \in NumTokens : t # "" /\ to_numeric(t) = n

(***************************************************************************)
(* Series.dt.year and Series.dt.quarter.                                   *)
(***************************************************************************)
dt_year(d) == IF d = NaT THEN NaN ELSE d \div 10000

dt_month(d) == (d \div 100) % 100

dt_quarter(d) == IF d = NaT THEN NaN ELSE ((dt_month(d) - 1) \div 3) + 1

(***************************************************************************)
(* Defects reported by the validation (src/app.py:78, :86, :95, :108,      *)
(* :122).  A defect names the columns it is about.                         *)
(***************************************************************************)
MissingDefect(cols) == [kind |-> "missing", columns |-> cols]

DateDefect == [kind |-> "date", columns |-> {"Date"}]

NumericDefect(col) == [kind |-> "numeric", columns |-> {col}]

FormatDefect == [kind |-> "format", columns |-> {}]

ExceptionDefect == [kind |-> "exception", columns |-> {}]

(***************************************************************************)
(* validate_data_format (src/app.py:70-97).  df is a raw table: its set of *)
(* columns and its rows of text cells.                                     *)
(***************************************************************************)
missing_columns_none(df) == {}

missing_columns(df) == required_columns \ df.columns

DateRaises(df) ==
    \E i \in 1..Len(df.rows) : ~CanParseDate(df.rows[i]["Date"])

NumericRaises(df, col) ==
    \E i \in 1..Len(df.rows) : ~CanParseNumeric(df.rows[i][col])

RECURSIVE NumericChecksFailFast(_, _)
NumericChecksFailFast(df, k) ==
    IF k > Len(numeric_columns) THEN <<>>
    ELSE LET col == numeric_columns[k]
         IN  IF col \in df.columns /\ NumericRaises(df, col)
             THEN <<NumericDefect(col)>>
             ELSE NumericChecksFailFast(df, k + 1)

RECURSIVE NumericChecks(_, _)
NumericChecks(df, k) ==
    IF k > Len(numeric_columns) THEN <<>>
    ELSE LET col == numeric_columns[k]
         IN  (IF col \in df.columns /\ NumericRaises(df, col)
              THEN <<NumericDefect(col)>> ELSE <<>>)
             \o NumericChecks(df, k + 1)

validate_data_format_unguarded(df) ==
    LET errors0 == IF missing_columns(df) # {}
                   THEN <<MissingDefect(missing_columns(df))>> ELSE <<>>
    IN  errors0
        \o (IF "Date" \in df.columns /\ DateRaises(df)
            THEN <<DateDefect>> ELSE <<>>)
        \o NumericChecks(df, 1)

validate_data_format(df) ==
    LET errors0 == IF missing_columns(df) # {}
                   THEN <<MissingDefect(missing_columns(df))>> ELSE <<>>
    IN  IF errors0 = <<>>
        THEN (IF DateRaises(df) THEN <<DateDefect>> ELSE <<>>)
             \o NumericChecks(df, 1)
        ELSE errors0

(***************************************************************************)
(* Typing of a raw row: read_csv infers the numeric columns, to_datetime   *)
(* parses the date, Year and Quarter are derived (src/app.py:63-66,        *)
(* :104-118).                                                              *)
(***************************************************************************)
ParseCell(col, t) ==
    IF col = "Date" THEN to_datetime(t)
    ELSE IF col \in NumericSet THEN to_numeric(t)
    ELSE t

AddComputed(r) ==
    [c \in (DOMAIN r) \cup computed_columns |->
        IF c = "Year" THEN dt_year(r["Date"])
        ELSE IF c = "Quarter" THEN dt_quarter(r["Date"])
        ELSE r[c]]

ParseRow(raw) == AddComputed([c \in DOMAIN raw |-> ParseCell(c, raw[c])])

ParseRows(rows) == [i \in 1..Len(rows) |-> ParseRow(rows[i])]

(***************************************************************************)
(* process_uploaded_file (src/app.py:100-122): the pair (df, errors); df   *)
(* is None (ok = FALSE) when there are errors.                             *)
(***************************************************************************)
NoFrame == [ok |-> FALSE, rows |-> <<>>]

Frame(rows) == [ok |-> TRUE, rows |-> rows]

process_uploaded_file_any_ext(file) ==
    IF ~file.readable
    THEN [df |-> NoFrame, errors |-> <<ExceptionDefect>>]
    ELSE LET df == [columns |-> file.columns, rows |-> file.rows]
             validation_errors == validate_data_format(df)
         IN  IF validation_errors # <<>>
             THEN [df |-> NoFrame, errors |-> validation_errors]
             ELSE [df |-> Frame(ParseRows(df.rows)), errors |-> <<>>]

process_uploaded_file(file) ==
    IF file.ext \notin {".csv", ".xlsx", ".xls"}
    THEN [df |-> NoFrame, errors |-> <<FormatDefect>>]
    ELSE IF ~file.readable
    THEN [df |-> NoFrame, errors |-> <<ExceptionDefect>>]
    ELSE LET df == [columns |-> file.columns, rows |-> file.rows]
             validation_errors == validate_data_format(df)
         IN  IF validation_errors # <<>>
             THEN [df |-> NoFrame, errors |-> validation_errors]
             ELSE [df |-> Frame(ParseRows(df.rows)), errors |-> <<>>]

(***************************************************************************)
(* load_data without its cache (src/app.py:62-67).                         *)
(***************************************************************************)
load_data(file) == ParseRows(file.rows)

(***************************************************************************)
(* df.drop(['Year', 'Quarter'], axis=1, errors='ignore') on one row and on *)
(* a frame (src/app.py:136, :245, :246).                                   *)
(***************************************************************************)
DropComputedRow(r) == [c \in (DOMAIN r) \ computed_columns |-> r[c]]

DropComputed(rows) == [i \in 1..Len(rows) |-> DropComputedRow(rows[i])]

(***************************************************************************)
(* DataFrame.to_csv (src/app.py:132, :137).                                *)
(***************************************************************************)
CellToCsv(col, v) ==
    IF col = "Date" THEN date_to_csv(v)
    ELSE IF col \in NumericSet THEN numeric_to_csv(v)
    ELSE v

to_csv(rows) ==
    [i \in 1..Len(rows) |->
        [c \in DOMAIN rows[i] |-> CellToCsv(c, rows[i][c])]]

(***************************************************************************)
(* The backup copy: pd.read_csv(primary).to_csv(backup) (src/app.py:131-   *)
(* 132).  read_csv types the numeric columns and leaves the date as text.  *)
(***************************************************************************)
BackupCopy(rows) ==
    [i \in 1..Len(rows) |->
        [c \in DOMAIN rows[i] |->
            IF c \in NumericSet THEN numeric_to_csv(to_numeric(rows[i][c]))
            ELSE rows[i][c]]]

(***************************************************************************)
(* DataFrame.drop_duplicates(): keeps the first of each group of equal     *)
(* rows, in order (src/app.py:248).                                        *)
(***************************************************************************)
drop_duplicates_keep_all(rows) == rows

RECURSIVE drop_duplicates(_)
drop_duplicates(rows) ==
    IF rows = <<>> THEN <<>>
    ELSE LET front == drop_duplicates(SubSeq(rows, 1, Len(rows) - 1))
             last == rows[Len(rows)]
         IN  IF \E i \in 1..Len(front) : front[i] = last
             THEN front ELSE Append(front, last)

(***************************************************************************)
(* Append mode (src/app.py:243-252).                                       *)
(***************************************************************************)
AppendMerge(original_df, new_df) ==
    LET original_clean == DropComputed(original_df)
        new_clean == DropComputed(new_df)
        final_df == drop_duplicates(original_clean \o new_clean)
    IN  [i \in 1..Len(final_df) |-> AddComputed(final_df[i])]

(***************************************************************************)
(* Files on disk.                                                          *)
(***************************************************************************)
NoFile == [exists |-> FALSE, rows |-> <<>>]

File(rows) == [exists |-> TRUE, rows |-> rows]

Prefix(rows, k) == SubSeq(rows, 1, k)

Row(d, c, rev, ni, oe, mc, sp, pe) ==
    [Date |-> d, Company |-> c, Revenue |-> rev, NetIncome |-> ni,
     OperatingExpenses |-> oe, MarketCap |-> mc, StockPrice |-> sp,
     PERatio |-> pe]

(***************************************************************************)
(* The sample embedded in the reset handler (src/app.py:312-331): its      *)
(* first two of nineteen lines.                                            *)
(***************************************************************************)
original_data ==
    << Row("2020-03-31", "Meta", "17737", "4902", "12835", "585000",
           "165.91", "26.5"),
       Row("2020-06-30", "Meta", "18687", "5178", "13509", "603000",
           "173.18", "27.2") >>

(***************************************************************************)
(* The dataset file the dashboard starts from (data/financial_data.csv):   *)
(* the sample and one row of another company.                              *)
(***************************************************************************)
AppleRow(d, rev) ==
    Row(d, "Apple", rev, "4902", "12835", "585000", "165.91", "26.5")

ShippedData == original_data \o << AppleRow("2020-03-31", "100") >>

(***************************************************************************)
(* Uploads offered to the file uploader in the store specifications.       *)
(***************************************************************************)
NoUpload ==
    [present |-> FALSE, ext |-> "", readable |-> FALSE, columns |-> {},
     rows |-> <<>>]

UploadOf(ext, readable, columns, rows) ==
    [present |-> TRUE, ext |-> ext, readable |-> readable,
     columns |-> columns, rows |-> rows]

Csv(rows) == UploadOf(".csv", TRUE, required_columns, rows)

StoreUploads ==
    { Csv(<< AppleRow("2020-06-30", "0") >>),
      Csv(<< AppleRow("2021-03-31", "120"), AppleRow("2021-03-31", "120") >>),
      Csv(<< Row("03/31/2020", "Meta", "17737", "4902", "12835", "585000",
                 "165.91", "26.5") >>),
      Csv(<< Row("", "Apple", "120", "4902", "12835", "585000", "165.91",
                 "") >>),
      Csv(<< AppleRow("2021-03-31", "abc") >>),
      UploadOf(".csv", TRUE, {"Date", "Company", "Revenue"},
               << [Date |-> "2020-03-31", Company |-> "Meta",
                   Revenue |-> "17737"] >>),
      UploadOf(".txt", TRUE, required_columns,
               << AppleRow("2021-03-31", "120") >>) }

(***************************************************************************)
(* State.                                                                  *)
(***************************************************************************)
VARIABLES
    primary,          \* data/financial_data.csv
    original_file,    \* data/financial_data_original.csv
    backups,          \* data/financial_data_backup_<timestamp>.csv
    now,              \* datetime.now() at one-second granularity
    cache,            \* the st.cache_data entry of load_data
    uploaded_file,    \* the file held by the uploader widget
    new_df,           \* first result of process_uploaded_file
    errors,           \* second result of process_uploaded_file
    companies,        \* sidebar filter: selected companies
    date_range,       \* sidebar filter: (start, end)
    growth_data,      \* the year-over-year data points of the last run
    runs,             \* number of runs of main so far
    faults,           \* number of file operations that have failed so far
    last              \* record of the last operation (history)

vars ==
    <<primary, original_file, backups, now, cache, uploaded_file, new_df,
      errors, companies, date_range, growth_data, runs, faults,
      last>>

NoCache == [loaded |-> FALSE, rows |-> <<>>]

FullRange == <<0, 99999999>>

LastOf(op, mode, ok, saved, before) ==
    [op |-> op, mode |-> mode, ok |-> ok, saved |-> saved,
     prev_op |-> before.op]

LastInit ==
    [op |-> "init", mode |-> "", ok |-> TRUE, saved |-> <<>>,
     prev_op |-> "init"]

(***************************************************************************)
(* load_data through st.cache_data (src/app.py:61-67): the first call      *)
(* reads the file, every later call of the process returns the entry.      *)
(***************************************************************************)
CachedLoad == IF cache.loaded THEN cache.rows ELSE load_data(primary)

CacheAfterLoad == [loaded |-> TRUE, rows |-> CachedLoad]

(***************************************************************************)
(* Every run of main starts with load_data() (src/app.py:157); the run     *)
(* stops there when the file is missing and nothing is cached.             *)
(***************************************************************************)
MainRuns == cache.loaded \/ primary.exists

CountRun == runs < MaxRuns /\ runs' = runs + 1

CountFault(fault) ==
    IF fault = "none" THEN faults' = faults
    ELSE faults < MaxFaults /\ faults' = faults + 1

(***************************************************************************)
(* Writing a backup file: a file of the same name is replaced.             *)
(***************************************************************************)
WriteBackup(bk, name, rows) ==
    {b \in bk : b.name # name} \cup {[name |-> name, rows |-> rows]}

(***************************************************************************)
(* save_data_to_file (src/app.py:125-140).  fault names the file operation *)
(* that raises ("none" when all succeed) and k the number of rows written  *)
(* before it does.  The result is the returned flag and the files after.   *)
(***************************************************************************)
save_data_to_file(df, backup_original, fault, k) ==
    LET takes_backup == backup_original /\ primary.exists
        backup_rows == BackupCopy(primary.rows)
        df_to_save == to_csv(DropComputed(df))
    IN  IF takes_backup /\ fault = "read"
        THEN [success |-> FALSE, primary |-> primary, backups |-> backups]
        ELSE IF takes_backup /\ fault = "backup"
        THEN [success |-> FALSE, primary |-> primary,
              backups |-> WriteBackup(backups, now, Prefix(backup_rows, k))]
        ELSE LET bk == IF takes_backup
                       THEN WriteBackup(backups, now, backup_rows)
                       ELSE backups
             IN  IF fault = "write"
                 THEN [success |-> FALSE,
                       primary |-> File(Prefix(df_to_save, k)),
                       backups |-> bk]
                 ELSE [success |-> TRUE, primary |-> File(df_to_save),
                       backups |-> bk]

(***************************************************************************)
(* Exact fractions for the float arithmetic of the growth computation.     *)
(***************************************************************************)
Abs(n) == IF n < 0 THEN -n ELSE n

RECURSIVE GCD(_, _)
GCD(a, b) == IF b = 0 THEN a ELSE GCD(b, a % b)

Frac(n, d) ==
    LET g == GCD(Abs(n), Abs(d))
    IN  IF g = 0 THEN [num |-> n, den |-> d]
        ELSE [num |-> n \div g, den |-> d \div g]

(***************************************************************************)
(* The sidebar filter (src/app.py:195-203).                                *)
(***************************************************************************)
RECURSIVE company_isin(_, _)
company_isin(rows, cs) ==
    IF rows = <<>> THEN <<>>
    ELSE (IF Head(rows)["Company"] \in cs THEN <<Head(rows)>> ELSE <<>>)
         \o company_isin(Tail(rows), cs)

RECURSIVE date_between(_, _, _)
date_between(rows, start_date, end_date) ==
    IF rows = <<>> THEN <<>>
    ELSE (IF /\ Head(rows)["Date"] # NaT
             /\ Head(rows)["Date"] >= start_date
             /\ Head(rows)["Date"] <= end_date
          THEN <<Head(rows)>> ELSE <<>>)
         \o date_between(Tail(rows), start_date, end_date)

filtered_df(df, cs, dr) ==
    IF Len(dr) = 2
    THEN date_between(company_isin(df, cs), dr[1], dr[2])
    ELSE company_isin(df, cs)

(***************************************************************************)
(* Year-over-year growth (src/app.py:488-504).                             *)
(***************************************************************************)
RECURSIVE SumRevenue(_, _)
SumRevenue(rows, year) ==
    IF rows = <<>> THEN 0
    ELSE (IF Head(rows)["Year"] = year /\ Head(rows)["Revenue"] # NaN
          THEN Head(rows)["Revenue"] ELSE 0)
         + SumRevenue(Tail(rows), year)

YearsAfterFirst(company_data) ==
    LET years == {company_data[i]["Year"] : i \in 1..Len(company_data)}
    IN  {y \in years : \E z \in years : z < y}

yoy_growth_ratio(current_year, previous_year) ==
    Frac(current_year - previous_year, previous_year)

yoy_growth(current_year, previous_year) ==
    LET ratio == Frac(current_year - previous_year, previous_year)
    IN  Frac(ratio.num * 100, ratio.den)

growth_points(fdf, cs) ==
    UNION { LET company_data == company_isin(fdf, {company})
            IN  { [Company |-> company, Year |-> year,
                   Growth |-> yoy_growth(SumRevenue(company_data, year),
                                         SumRevenue(company_data, year - 1))]
                  : year \in { y \in YearsAfterFirst(company_data) :
                               SumRevenue(company_data, y - 1) > 0 } }
          : company \in cs }

(***************************************************************************)
(* The dashboard part of a run of main (src/app.py:367-369, :488-504):     *)
(* nothing is computed when the filter leaves no row.                      *)
(***************************************************************************)
DashboardGrowth(df, cs, dr) ==
    IF filtered_df(df, cs, dr) = <<>> THEN {}
    ELSE growth_points(filtered_df(df, cs, dr), cs)

Render(cs, dr) ==
    /\ cache' = CacheAfterLoad
    /\ growth_data' = DashboardGrowth(CachedLoad, cs, dr)

ProcessUpload(file) ==
    IF file.present
    THEN /\ new_df' = process_uploaded_file(file).df
         /\ errors' = process_uploaded_file(file).errors
    ELSE /\ new_df' = NoFrame
         /\ errors' = <<>>

(***************************************************************************)
(* The user puts a file in the uploader: main runs and processes it        *)
(* (src/app.py:209-228).                                                   *)
(***************************************************************************)
Upload(file) ==
    /\ MainRuns
    /\ CountRun
    /\ uploaded_file' = file
    /\ ProcessUpload(file)
    /\ UNCHANGED <<primary, original_file, backups, now, companies,
                   date_range, faults>>
    /\ Render(companies, date_range)
    /\ last' = LastOf("upload", "", errors' = <<>>, <<>>, last)

(***************************************************************************)
(* The user presses "Import Data" (src/app.py:215-261).  The run processes *)
(* the held file again, merges and saves.                                  *)
(***************************************************************************)
ImportData(import_mode, fault, k) ==
    /\ MainRuns
    /\ CountRun
    /\ CountFault(fault)
    /\ uploaded_file.present
    /\ ProcessUpload(uploaded_file)
    /\ errors' = <<>>
    /\ LET final_df == IF import_mode = "Replace existing data"
                       THEN new_df'.rows
                       ELSE AppendMerge(CachedLoad, new_df'.rows)
           result == save_data_to_file(final_df, TRUE, fault, k)
       IN  /\ fault = "backup" =>
                 primary.exists /\ k < Len(BackupCopy(primary.rows))
           /\ fault = "read" => primary.exists
           /\ fault = "write" => k < Len(final_df)
           /\ primary' = result.primary
           /\ backups' = result.backups
           /\ last' = LastOf("import", import_mode, result.success, final_df,
                             last)
    /\ UNCHANGED <<uploaded_file, original_file, now, companies, date_range>>
    /\ Render(companies, date_range)

(***************************************************************************)
(* shutil.copy(src, dst): the content of dst afterwards (src/app.py:338).  *)
(***************************************************************************)
shutil_copy_swapped(src, dst) == dst

shutil_copy(src, dst) == src

(***************************************************************************)
(* The user presses "Reset to Original Data" (src/app.py:308-342).  The    *)
(* write of the sample is outside the try: when it raises the run stops.   *)
(***************************************************************************)
ResetToOriginal(fault, k) ==
    /\ MainRuns
    /\ CountRun
    /\ CountFault(fault)
    /\ ProcessUpload(uploaded_file)
    /\ LET materialize == ~original_file.exists
           written == IF materialize THEN File(original_data)
                      ELSE original_file
       IN  IF materialize /\ fault = "write"
           THEN /\ k < Len(original_data)
                /\ original_file' = File(Prefix(original_data, k))
                /\ primary' = primary
                /\ growth_data' = growth_data
                /\ cache' = CacheAfterLoad
                /\ last' = LastOf("reset", "", FALSE, <<>>, last)
           ELSE /\ fault \in {"none", "copy"}
                /\ original_file' = written
                /\ IF fault = "copy"
                   THEN /\ k < Len(written.rows)
                        /\ primary' = File(Prefix(written.rows, k))
                   ELSE primary' = shutil_copy(written, primary)
                /\ Render(companies, date_range)
                /\ last' = LastOf("reset", "", fault = "none", <<>>,
                                  last)
    /\ UNCHANGED <<uploaded_file, backups, now, companies, date_range>>

(***************************************************************************)
(* The process is restarted: the cache entry and the widgets are gone, the *)
(* files stay.                                                             *)
(***************************************************************************)
Restart ==
    /\ CountRun
    /\ cache' = NoCache
    /\ uploaded_file' = NoUpload
    /\ new_df' = NoFrame
    /\ errors' = <<>>
    /\ growth_data' = {}
    /\ UNCHANGED <<primary, original_file, backups, now, companies,
                   date_range, faults>>
    /\ last' = LastOf("restart", "", TRUE, <<>>, last)

(***************************************************************************)
(* A second passes on the clock read by datetime.now() (src/app.py:130).   *)
(***************************************************************************)
Tick ==
    /\ now < MaxTime
    /\ now' = now + 1
    /\ UNCHANGED <<primary, original_file, backups, cache, uploaded_file,
                   new_df, errors, companies, date_range, growth_data, runs,
                   faults, last>>

ImportModes == {"Replace existing data", "Append to existing data"}

Init ==
    /\ primary = File(ShippedData)
    /\ original_file = NoFile
    /\ backups = {}
    /\ now = 0
    /\ cache = NoCache
    /\ uploaded_file = NoUpload
    /\ new_df = NoFrame
    /\ errors = <<>>
    /\ companies = CompanyTokens
    /\ date_range = FullRange
    /\ growth_data = {}
    /\ runs = 0
    /\ faults = 0
    /\ last = LastInit

Next ==
    \/ \E file \in StoreUploads : Upload(file)
    \/ \E import_mode \in ImportModes : ImportData(import_mode, "none", 0)
    \/ ResetToOriginal("none", 0)
    \/ Restart
    \/ Tick

Spec == Init /\ [][Next]_vars

(***************************************************************************)
(* The store under file operations that can fail.                          *)
(***************************************************************************)
SaveFaults == {"none", "read", "backup", "write"}

ResetFaults == {"none", "write", "copy"}

NextIO ==
    \/ \E file \in StoreUploads : Upload(file)
    \/ \E import_mode \in ImportModes, fault \in SaveFaults,
          k \in 0..MaxPartial :
          /\ fault = "none" => k = 0
          /\ ImportData(import_mode, fault, k)
    \/ \E fault \in ResetFaults, k \in 0..MaxPartial :
          /\ fault = "none" => k = 0
          /\ ResetToOriginal(fault, k)
    \/ Restart
    \/ Tick

SpecIO == Init /\ [][NextIO]_vars

(***************************************************************************)
(* Validation as a function of the uploaded table: the file is in the      *)
(* uploader and one run of main processes it.                              *)
(***************************************************************************)
Restrict(r, cols) == [c \in cols |-> r[c]]

TableRows(cols) ==
    { Restrict(Row(d, "Meta", rev, "4902", "12835", mc, "165.91", pe), cols)
      : d \in {"2020-03-31", "not-a-date"}, rev \in {"100", "abc"},
        mc \in {"585000", "abc"}, pe \in {"26.5", "abc"} }

SeqsUpTo(S, n) == UNION {[1..m -> S] : m \in 0..n}

ValidateUploads ==
    { UploadOf(".csv", TRUE, cols, rows)
      : <<cols, rows>> \in
          UNION { {cols} \X SeqsUpTo(TableRows(cols), MaxTableRows)
                  : cols \in SUBSET required_columns } }
    \cup StoreUploads

InitValidate ==
    /\ primary = File(ShippedData)
    /\ original_file = NoFile
    /\ backups = {}
    /\ now = 0
    /\ cache = NoCache
    /\ uploaded_file \in ValidateUploads
    /\ new_df = NoFrame
    /\ errors = <<>>
    /\ companies = CompanyTokens
    /\ date_range = FullRange
    /\ growth_data = {}
    /\ runs = 0
    /\ faults = 0
    /\ last = LastInit

NextValidate == last.op = "init" /\ Upload(uploaded_file)

SpecValidate == InitValidate /\ [][NextValidate]_vars

(***************************************************************************)
(* The growth chart as a function of the loaded data and the filters.      *)
(***************************************************************************)
GrowthRows ==
    { Row(d, "Meta", rev, "4902", "12835", "585000", "165.91", "26.5")
      : d \in {"2020-03-31", "2021-03-31", "2022-03-31"},
        rev \in {"0", "100", "120"} }
    \cup { AppleRow("2021-03-31", "100") }

CompaniesIn(df) == {df[i]["Company"] : i \in 1..Len(df)}

DateRanges == {FullRange, <<20210101, 99999999>>, <<20200101>>}

(***************************************************************************)
(* The user changes the sidebar filters: main runs (src/app.py:157-203,    *)
(* :367-369, :488-504).                                                    *)
(***************************************************************************)
SelectFilters(cs, dr) ==
    /\ MainRuns
    /\ cs \subseteq CompaniesIn(CachedLoad)
    /\ companies' = cs
    /\ date_range' = dr
    /\ ProcessUpload(uploaded_file)
    /\ Render(cs, dr)
    /\ UNCHANGED <<primary, original_file, backups, now, uploaded_file, runs,
                   faults>>
    /\ last' = LastOf("render", "", TRUE, <<>>, last)

InitGrowth ==
    /\ primary \in {File(rows) : rows \in SeqsUpTo(GrowthRows, MaxGrowthRows)}
    /\ original_file = NoFile
    /\ backups = {}
    /\ now = 0
    /\ cache = NoCache
    /\ uploaded_file = NoUpload
    /\ new_df = NoFrame
    /\ errors = <<>>
    /\ companies = CompanyTokens
    /\ date_range = FullRange
    /\ growth_data = {}
    /\ runs = 0
    /\ faults = 0
    /\ last = LastInit

NextGrowth ==
    \E cs \in SUBSET CompanyTokens, dr \in DateRanges : SelectFilters(cs, dr)

SpecGrowth == InitGrowth /\ [][NextGrowth]_vars

(***************************************************************************)
(* Helpers of the properties.                                              *)
(***************************************************************************)
RowSet(rows) == {rows[i] : i \in 1..Len(rows)}

NoDuplicates(rows) ==
    \A i, j \in 1..Len(rows) : rows[i] = rows[j] => i = j

FirstIndex(rows, r) == CHOOSE i \in 1..Len(rows) :
    rows[i] = r /\ \A j \in 1..(i - 1) : rows[j] # r

ImportDone(mode) == last.op = "import" /\ last.mode = mode /\ last.ok

RunStep == runs' = runs + 1

(***************************************************************************)
(* C1: after a successful save, load_data() in the same process returns a  *)
(* dataset equal on the persisted fields to the one saved.                 *)
(***************************************************************************)
C1_SaveThenLoad ==
    (last.op = "import" /\ last.ok)
        => DropComputed(CachedLoad) = DropComputed(last.saved)

(***************************************************************************)
(* C2: every overwrite of an existing primary file, by an import or by a   *)
(* reset, comes with a backup named by the current timestamp that holds    *)
(* the content the primary file had just before.                           *)
(***************************************************************************)
C2_BackupBeforeOverwrite ==
    [][(RunStep /\ last'.op \in {"import", "reset"} /\ last'.ok
        /\ primary.exists)
          => [name |-> now, rows |-> primary.rows] \in backups']_vars

(***************************************************************************)
(* C3: in Append mode the persisted dataset contains every row persisted   *)
(* just before the import and every row of the incoming dataset, and has   *)
(* len(existing) + len(incoming) - duplicates rows.                        *)
(***************************************************************************)
C3_AppendKeepsPersisted ==
    [][(RunStep /\ last'.op = "import" /\ last'.ok
        /\ last'.mode = "Append to existing data")
          => LET existing == DropComputed(load_data(primary))
                 incoming == DropComputed(new_df'.rows)
                 result == DropComputed(load_data(primary'))
                 both == existing \o incoming
                 duplicates == Len(both) - Cardinality(RowSet(both))
             IN  /\ RowSet(existing) \subseteq RowSet(result)
                 /\ RowSet(incoming) \subseteq RowSet(result)
                 /\ Len(result) = Len(existing) + Len(incoming) - duplicates
       ]_vars

(***************************************************************************)
(* C4: a save that fails leaves the primary file with its complete prior   *)
(* content or with the complete new content.                               *)
(***************************************************************************)
C4_NoPartialWrite ==
    [][(RunStep /\ last'.op = "import" /\ ~last'.ok)
          => \/ primary' = primary
             \/ primary' = File(to_csv(DropComputed(last'.saved)))]_vars

C6_BackupsWriteOnce == [][\A b \in backups : b \in backups']_vars

(***************************************************************************)
(* C7: for a table that lacks required columns the validation returns      *)
(* exactly one defect, which lists all the missing columns.                *)
(***************************************************************************)
Validated ==
    /\ last.op = "upload"
    /\ uploaded_file.present
    /\ uploaded_file.readable
    /\ uploaded_file.ext \in {".csv", ".xlsx", ".xls"}

HasBadCell(file, col, good) ==
    /\ col \in file.columns
    /\ \E i \in 1..Len(file.rows) : file.rows[i][col] \notin good

C7_MissingColumnsOneDefect ==
    (Validated /\ ~(required_columns \subseteq uploaded_file.columns))
        => /\ Len(errors) = 1
           /\ errors[1].kind = "missing"
           /\ errors[1].columns =
                 {c \in required_columns : c \notin uploaded_file.columns}
           /\ ~new_df.ok

C7_Witness ==
    /\ Validated
    /\ Cardinality(required_columns \ uploaded_file.columns) >= 2
    /\ HasBadCell(uploaded_file, "Revenue", NumTokens)
    /\ HasBadCell(uploaded_file, "Date", DateTokens)
    /\ Len(errors) = 1

(***************************************************************************)
(* C8: for a table with all required columns the validation returns every  *)
(* defect: one for the date column iff a date fails to parse, exactly one  *)
(* naming each numeric column that holds a non-numeric value, and nothing  *)
(* else; the list is empty iff no check fails.                             *)
(***************************************************************************)
CountOf(seq, x) == Cardinality({i \in 1..Len(seq) : seq[i] = x})

C8_AllDefectsCollected ==
    (Validated /\ required_columns \subseteq uploaded_file.columns)
        => LET bad_date == HasBadCell(uploaded_file, "Date", DateTokens)
               bad_cols == {c \in NumericSet :
                               HasBadCell(uploaded_file, c, NumTokens)}
           IN  /\ CountOf(errors, DateDefect) = IF bad_date THEN 1 ELSE 0
               /\ \A c \in NumericSet :
                     CountOf(errors, NumericDefect(c)) =
                         IF c \in bad_cols THEN 1 ELSE 0
               /\ Len(errors) =
                     (IF bad_date THEN 1 ELSE 0) + Cardinality(bad_cols)
               /\ (errors = <<>>) <=> (~bad_date /\ bad_cols = {})
               /\ new_df.ok <=> (errors = <<>>)

C8_Witness ==
    /\ Validated
    /\ required_columns \subseteq uploaded_file.columns
    /\ HasBadCell(uploaded_file, "Date", DateTokens)
    /\ HasBadCell(uploaded_file, "Revenue", NumTokens)
    /\ HasBadCell(uploaded_file, "PERatio", NumTokens)
    /\ Len(errors) = 3

(***************************************************************************)
(* C9 as stated: in Append mode, when every incoming row equals a row of   *)
(* the existing dataset on the persisted fields, the merged dataset is the *)
(* existing one: same rows, same order, same count.                        *)
(***************************************************************************)
AppendOfKnownRows ==
    /\ ImportDone("Append to existing data")
    /\ new_df.rows # <<>>
    /\ RowSet(DropComputed(new_df.rows)) \subseteq RowSet(DropComputed(cache.rows))

C9_MergedIsExisting ==
    AppendOfKnownRows => DropComputed(last.saved) = DropComputed(cache.rows)

(***************************************************************************)
(* C9 amended: the merged dataset holds the rows of the existing one with  *)
(* exact duplicates collapsed to their first occurrence, in that order; it *)
(* is the existing dataset when that has no duplicate rows.                *)
(***************************************************************************)
C9_MergedIsExistingDeduplicated ==
    AppendOfKnownRows
        => LET existing == DropComputed(cache.rows)
               merged == DropComputed(last.saved)
           IN  /\ RowSet(merged) = RowSet(existing)
               /\ NoDuplicates(merged)
               /\ \A i, j \in 1..Len(merged) :
                     i < j => FirstIndex(existing, merged[i])
                                  < FirstIndex(existing, merged[j])
               /\ NoDuplicates(existing) => merged = existing
               /\ primary.rows = to_csv(merged)

C9_Witness ==
    /\ AppendOfKnownRows
    /\ NoDuplicates(cache.rows)
    /\ Len(cache.rows) >= 2
    /\ uploaded_file.rows[1] \notin RowSet(primary.rows)

(***************************************************************************)
(* C10: every growth data point of a company and year is                   *)
(* (revenue(Y+1) - revenue(Y)) / revenue(Y) * 100 over the yearly revenue  *)
(* sums of the filtered data (100 then 120 gives 20); a company and year   *)
(* with rows whose prior-year revenue is positive has a point, one whose   *)
(* prior-year revenue is zero has none.                                    *)
(***************************************************************************)
Shown == filtered_df(cache.rows, companies, date_range)

YearlyRevenue(c, y) ==
    LET idx == {i \in 1..Len(Shown) :
                   Shown[i]["Company"] = c /\ Shown[i]["Year"] = y}
        RECURSIVE Total(_)
        Total(S) == IF S = {} THEN 0
                    ELSE LET i == CHOOSE j \in S : TRUE
                         IN  Shown[i]["Revenue"] + Total(S \ {i})
    IN  Total(idx)

HasRows(c, y) ==
    \E i \in 1..Len(Shown) : Shown[i]["Company"] = c /\ Shown[i]["Year"] = y

ShownYears == {Shown[i]["Year"] : i \in 1..Len(Shown)}

C10_YearOverYearGrowth ==
    last.op = "render"
        => /\ \A p \in growth_data :
                 LET cur == YearlyRevenue(p.Company, p.Year)
                     prev == YearlyRevenue(p.Company, p.Year - 1)
                 IN  /\ p.Company \in companies
                     /\ HasRows(p.Company, p.Year)
                     /\ prev > 0
                     /\ p.Growth.den > 0
                     /\ p.Growth.num * prev = (cur - prev) * 100 * p.Growth.den
                     /\ (prev = 10000 /\ cur = 12000)
                            => p.Growth = [num |-> 20, den |-> 1]
           /\ \A c \in companies, y \in ShownYears :
                 LET points == {p \in growth_data :
                                   p.Company = c /\ p.Year = y}
                 IN  IF HasRows(c, y) /\ YearlyRevenue(c, y - 1) > 0
                     THEN Cardinality(points) = 1
                     ELSE points = {}

C10_Witness ==
    /\ last.op = "render"
    /\ \E p \in growth_data : p.Growth = [num |-> 20, den |-> 1]
    /\ \E c \in companies, y \in ShownYears :
          /\ HasRows(c, y)
          /\ HasRows(c, y - 1)
          /\ YearlyRevenue(c, y - 1) = 0
          /\ \A p \in growth_data : ~(p.Company = c /\ p.Year = y)

(***************************************************************************)
(* C11: every record of the persisted primary file satisfies the schema:   *)
(* the eight required fields are present, the date parses and the six      *)
(* numeric fields are numeric (a blank cell parses, as NaT or NaN).        *)
(***************************************************************************)
SatisfiesSchema(record) ==
    /\ required_columns \subseteq DOMAIN record
    /\ record["Date"] \in DateTokens
    /\ \A c \in NumericSet : record[c] \in NumTokens

Rejected(file) ==
    \/ file.ext \notin {".csv", ".xlsx", ".xls"}
    \/ ~(required_columns \subseteq file.columns)
    \/ HasBadCell(file, "Date", DateTokens)
    \/ \E c \in NumericSet : HasBadCell(file, c, NumTokens)

C12_RejectedUploadChangesNothing ==
    [][(RunStep /\ uploaded_file'.present
        /\ last'.op \in {"upload", "import"})
          => /\ new_df'.ok <=> (errors' = <<>>)
             /\ Rejected(uploaded_file')
                   => /\ errors' # <<>>
                      /\ new_df' = NoFrame
                      /\ last'.op # "import"
                      /\ primary' = primary
                      /\ backups' = backups
                      /\ original_file' = original_file]_vars

C12_Witness ==
    /\ last.op = "upload"
    /\ Rejected(uploaded_file)
    /\ Len(errors) = 1
    /\ Cardinality(errors[1].columns) = 5
    /\ backups # {}
    /\ primary # File(ShippedData)

====
